---- MODULE Spec2Model ----
(***************************************************************************)
(* Model of the retrieval-and-evaluation pipeline of check-rsat:           *)
(*   - response handling (validateResponse, decode) over byte streams,     *)
(*   - the paginated fetches GetOrganizations and getOrgSyncPlans and the  *)
(*     aggregation GetOrgsWithSyncPlans that drives them,                  *)
(*   - the classification of sync plans (IsStuck, DaysStuck).              *)
(***************************************************************************)
EXTENDS Integers, Sequences, FiniteSets, TLC

----------------------------------------------------------------------------
(* Bounds of the model *)

\* longest response body, in bytes
MaxBodyLen == 3
\* largest number of bytes one Read of the underlying stream delivers
MaxChunk == 2
\* number of times the clock advances between two calls
MaxTicks == 2
\* largest client.Limits.PerPage
MaxPerPage == 2
\* largest number of organizations, and of sync plans of one organization,
\* that the server holds
MaxOrgs == 2
MaxPlans == 3
\* largest page number one fetch asks for (the loops themselves are unbounded)
MaxPages == 4
\* most organizations in a collection whose roll-up is taken
MaxCollOrgs == 2
\* longest string held by a NullString
MaxStrLen == 3

Min(a, b) == IF a <= b THEN a ELSE b
Max(a, b) == IF a >= b THEN a ELSE b

----------------------------------------------------------------------------
(* Byte streams.  A body is a sequence over a six-letter alphabet that     *)
(* keeps the structure encoding/json's scanner looks at: "{" opens an      *)
(* object, "}" closes one, " " is whitespace, "1" is a digit (a run of     *)
(* digits is a JSON number), "n" stands for the literal null, "x" is any   *)
(* other byte (member text inside an object, an invalid byte outside of    *)
(* one).  A stream is a body together with the way it ends: with io.EOF,   *)
(* or (broken) with a read error.                                          *)

Bytes == {"{", "}", " ", "1", "n", "x"}

RECURSIVE SeqsUpTo(_, _)
SeqsUpTo(S, n) ==
    IF n = 0 THEN {<<>>}
    ELSE LET shorter == SeqsUpTo(S, n - 1)
         IN  shorter \cup {Append(s, b) : s \in {t \in shorter : Len(t) = n - 1}, b \in S}

Bodies == SeqsUpTo(Bytes, MaxBodyLen)

LimitReader_Unlimited(body, limit) == body

\* io.LimitReader(reader, limit): the bytes the limited reader can deliver.
LimitReader(body, limit) == SubSeq(body, 1, Min(Len(body), Max(limit, 0)))

\* How the limited stream ends: the limiter answers io.EOF itself once limit
\* bytes were delivered; before that the end of the stream shows through.
StreamEnd(body, broken, limit) ==
    IF broken /\ limit > Len(body) THEN "ReadError" ELSE "io.EOF"

\* Position reached in a stream of cap bytes when it is read in chunks and
\* the byte at position need has to be seen (need > cap: read up to the end).
ReadTo(need, chunk, cap) ==
    IF need <= 0 THEN 0
    ELSE Min(cap, chunk * ((need + chunk - 1) \div chunk))

\* the first position after from that holds a non-space byte, 0 if none
NextNonSpace(s, from) ==
    LET cand == {i \in (from + 1)..Len(s) : s[i] # " "}
    IN  IF cand = {} THEN 0 ELSE CHOOSE i \in cand : \A j \in cand : i <= j

\* nesting depth after the bytes s[from..upto], from being an opening brace
RECURSIVE Depth(_, _, _)
Depth(s, from, upto) ==
    IF upto < from THEN 0
    ELSE Depth(s, from, upto - 1)
         + (IF s[upto] = "{" THEN 1 ELSE IF s[upto] = "}" THEN -1 ELSE 0)

\* json scanner over the bytes s (Decoder.readValue).  st = "object": an
\* object ends at .at; "number": a number's last digit is at .at; "null":
\* the literal ends at .at (the end of a number or literal shows one byte
\* later); "syntax": the byte at .at cannot start a value; "incomplete":
\* the bytes end before the value does (.at = 0: no value has started).
ScanValue(s) ==
    LET start == NextNonSpace(s, 0)
    IN  IF start = 0 THEN [st |-> "incomplete", at |-> 0]
        ELSE IF s[start] = "n" THEN [st |-> "null", at |-> start]
        ELSE IF s[start] = "1"
        THEN LET other == {j \in start..Len(s) : s[j] # "1"}
             IN  [st |-> "number",
                  at |-> IF other = {} THEN Len(s)
                         ELSE (CHOOSE j \in other : \A k \in other : j <= k) - 1]
        ELSE IF s[start] # "{" THEN [st |-> "syntax", at |-> start]
        ELSE LET ends == {j \in start..Len(s) : Depth(s, start, j) = 0}
             IN  IF ends = {} THEN [st |-> "incomplete", at |-> start]
                 ELSE [st |-> "object",
                       at |-> CHOOSE j \in ends : \A k \in ends : j <= k]

More_Never(s, valueEnd) == FALSE

\* Decoder.More after the value ending at valueEnd: a further byte exists
\* that is neither whitespace nor a closing brace.
More(s, valueEnd) ==
    LET q == NextNonSpace(s, valueEnd)
    IN  q # 0 /\ s[q] # "}"

NoError == "nil"

\* decode(dst, reader, logger, sourceName, limit), dst a struct: the cause
\* of the returned PrepError (NoError on success) and the number of bytes
\* taken from reader.  readerNil: reader == nil.  chunk: bytes per Read.
decode(readerNil, body, broken, limit, chunk) ==
    IF readerNil THEN [err |-> "ErrMissingValue", consumed |-> 0]
    ELSE LET s    == LimitReader(body, limit)
             cap  == Len(s)
             tail == StreamEnd(body, broken, limit)
             scan == ScanValue(s)
         IN  CASE scan.st = "syntax" ->
                    [err |-> "SyntaxError", consumed |-> ReadTo(scan.at, chunk, cap)]
               [] scan.st = "incomplete" ->
                    [err |-> IF tail = "ReadError" THEN tail
                             ELSE IF scan.at = 0 THEN "io.EOF"
                             ELSE "io.ErrUnexpectedEOF",
                     consumed |-> cap]
               [] scan.st = "number" ->
                    [err |-> IF scan.at = cap /\ tail = "ReadError" THEN tail
                             ELSE "UnmarshalTypeError",
                     consumed |-> ReadTo(scan.at + 1, chunk, cap)]
               [] OTHER ->
                    LET q     == NextNonSpace(s, scan.at)
                        need  == IF q = 0 THEN cap + 1 ELSE q
                        seen  == IF scan.st = "null" THEN scan.at + 1 ELSE scan.at
                    IN  [err |-> IF scan.st = "null" /\ scan.at = cap
                                    /\ tail = "ReadError" THEN tail
                                 ELSE IF More(s, scan.at)
                                 THEN "ErrJSONUnexpectedObjectCount" ELSE NoError,
                         consumed |-> Max(ReadTo(seen, chunk, cap),
                                          ReadTo(need, chunk, cap))]

http_StatusOK == 200

StatusTolerated_Below299(status) == status > 200 /\ status < 299

\* the second case of validateResponse's switch: success range, not 200
StatusTolerated(status) == status > 200 /\ status <= 299

\* validateResponse(ctx, response, logger, limit): the cause of the returned
\* PrepError (NoError when the response is accepted), the body text carried
\* by the error and the number of bytes taken from response.Body.
validateResponse(ctxErr, responseNil, status, body, broken, limit) ==
    IF responseNil
    THEN [err |-> "ErrMissingValue", text |-> <<>>, consumed |-> 0]
    ELSE IF ctxErr
    THEN [err |-> "ctx.Err", text |-> <<>>, consumed |-> 0]
    ELSE IF status = http_StatusOK
    THEN [err |-> NoError, text |-> <<>>, consumed |-> 0]
    ELSE IF StatusTolerated(status)
    THEN [err |-> NoError, text |-> <<>>, consumed |-> 0]
    ELSE IF StreamEnd(body, broken, limit) = "ReadError"
    THEN [err |-> "ReadError", text |-> <<>>,
          consumed |-> Len(LimitReader(body, limit))]
    ELSE [err |-> "ErrHTTPResponseOutsideRange",
          text |-> LimitReader(body, limit),
          consumed |-> Len(LimitReader(body, limit))]

----------------------------------------------------------------------------
(* Instants and durations (package time).  An instant is a whole number of *)
(* minutes and seconds since 0001-01-01 00:00:00 UTC, the zero instant; a  *)
(* duration is a signed number of minutes and seconds, both of one sign.   *)

ZeroInstant == [min |-> 0, sec |-> 0]
IsZero(t) == t = ZeroInstant
Before(t, u) == t.min < u.min \/ (t.min = u.min /\ t.sec < u.sec)

\* the largest and smallest Duration: 2^63 - 1 and -2^63 nanoseconds
MaxDuration == [min |-> 153722867, sec |-> 16]
MinDuration == [min |-> -153722867, sec |-> -16]

DurationLess(d, e) == d.min < e.min \/ (d.min = e.min /\ d.sec < e.sec)

\* t.Sub(u): the difference, kept within MinDuration..MaxDuration
Sub(t, u) ==
    LET m == t.min - u.min
        x == t.sec - u.sec
        d == IF m > 0 /\ x < 0 THEN [min |-> m - 1, sec |-> x + 60]
             ELSE IF m < 0 /\ x > 0 THEN [min |-> m + 1, sec |-> x - 60]
             ELSE [min |-> m, sec |-> x]
    IN  IF DurationLess(MaxDuration, d) THEN MaxDuration
        ELSE IF DurationLess(d, MinDuration) THEN MinDuration
        ELSE d

MinutesAtMost_Strict(d, m) == d.min < m

\* d.Minutes() <= m, for a whole number m
MinutesAtMost(d, m) == d.min < m \/ (d.min = m /\ d.sec <= 0)

\* int(math.Trunc(d.Hours() / 24))
WholeDays(d) == IF d.min >= 0 THEN d.min \div 1440 ELSE -((-d.min) \div 1440)

\* the instant secs seconds after t (secs may be negative)
AddSeconds(t, secs) ==
    LET total == t.sec + secs
    IN  [min |-> t.min + (total \div 60), sec |-> total % 60]

----------------------------------------------------------------------------
(* Classification of a sync plan (SyncPlan.IsStuck, IsOKState, DaysStuck)  *)

syncTimeGraceMinutes == 5

IsStuck_IgnoresEnabled(sp, now) ==
    Before(sp.NextSync, now)
        /\ ~MinutesAtMost(Sub(now, sp.NextSync), syncTimeGraceMinutes)

IsStuck_UnlessUnscheduled(sp, now) ==
    /\ sp.Enabled
    /\ sp.NextSync # [min |-> 0, sec |-> 0]
    /\ \/ now.min - sp.NextSync.min > 5
       \/ (now.min - sp.NextSync.min = 5 /\ now.sec > sp.NextSync.sec)

\* sp.IsStuck() when time.Now() answers now
IsStuck(sp, now) ==
    IF sp.Enabled /\ Before(sp.NextSync, now)
    THEN IF MinutesAtMost(Sub(now, sp.NextSync), syncTimeGraceMinutes)
         THEN FALSE
         ELSE TRUE
    ELSE FALSE

\* sp.IsOKState() when time.Now() answers now
IsOKState(sp, now) == IF IsStuck(sp, now) THEN FALSE ELSE TRUE

ClampDays_Unclamped(daysStuck) == daysStuck

\* if daysStuck < 0 { daysStuck = 0 }
ClampDays(daysStuck) == IF daysStuck < 0 THEN 0 ELSE daysStuck

\* sp.DaysStuck() when time.Now() answers now
DaysStuck(sp, now) ==
    IF ~sp.Enabled THEN 0
    ELSE IF IsZero(sp.NextSync)
    THEN ClampDays(WholeDays(Sub(now, sp.OriginalSyncDate)))
    ELSE ClampDays(WholeDays(Sub(now, sp.NextSync)))

----------------------------------------------------------------------------
(* The API server: the pages it answers with.  Records are numbered from 1 *)
(* in the order the server lists them.                                     *)

\* how the server reports "subtotal": the number of records it holds, one
\* more, one less, or the right number on page 1 and one less afterwards
ServerModes == {"exact", "over", "under", "lowers"}

\* "results" of the given page of n records, per_page records a page
PageRecords(n, per_page, page) ==
    LET first == (page - 1) * per_page + 1
        last == Min(n, page * per_page)
    IN  [i \in 1..Max(0, last - first + 1) |-> first + i - 1]

\* "subtotal" of the given page
ReportedSubtotal(mode, n, page) ==
    CASE mode = "exact" -> n
      [] mode = "over" -> n + 1
      [] mode = "under" -> Max(0, n - 1)
      [] mode = "lowers" -> IF page > 1 THEN Max(0, n - 1) ELSE n

\* a page on the wire: a complete JSON object, or one cut short
PageBody == <<"{", "}">>
TruncatedPageBody == <<"{">>

----------------------------------------------------------------------------
(* State *)

VARIABLES
    \* client and environment of the fetches: client.Limits.PerPage; whether
    \* the endpoint URL parses; whether a response body still delivers its
    \* bytes after Close (that of net/http's Transport does not, that of
    \* another RoundTripper may); the server's records and reporting mode;
    \* whether the context is done
    perPage, urlParses, readableAfterClose, server, ctxDone,
    \* GetOrgsWithSyncPlans and the fetch it is in: position, "orgs" or
    \* "plans", index of the organization, nextPage, the collection so far,
    \* the response in hand and the state of its body, numNew.. and
    \* num..Remaining of the last round, the return values of the fetch, the
    \* organizations being filled in, the return values of
    \* GetOrgsWithSyncPlans, and the requests handed to client.Do so far
    pc, kind, orgIdx, nextPage, all, response, body, round, fetchRet, orgs,
    aggRet, requests,
    \* the first page round that failed: its page and the number of requests
    \* handed to client.Do by then
    failure,
    \* response handling: the arguments of one call and its result
    respInput, respResult,
    \* classification: the sync plan, the clock that time.Now() reads, the
    \* number of times it advanced, the last call with the clock reading it
    \* saw and its result, and the clock reading of the first IsStuck call
    \* that answered true
    plan, clock, ticks, lastCall, firstStuck,
    \* roll-up: the collection GetOrgsWithSyncPlans returned and the method
    \* of it being called, with its position in the collection
    evaluated, call,
    \* timestamps and nullable strings: the arguments of one call of
    \* UnmarshalJSON or MarshalJSON, its result, and the result of passing
    \* that result back through the other of the two
    tsInput, tsOut, tsBack

envVars == <<perPage, urlParses, readableAfterClose, server>>
fetchVars == <<envVars, ctxDone, pc, kind, orgIdx, nextPage, all, response,
               body, round, fetchRet, orgs, aggRet, requests, failure>>
respVars == <<respInput, respResult>>
planVars == <<plan, clock, ticks, lastCall, firstStuck>>
orgsVars == <<evaluated, call>>
timeVars == <<tsInput, tsOut, tsBack>>
vars == <<fetchVars, respVars, planVars, orgsVars, timeVars>>

NoResponse == [status |-> 0]
NoRound == [new |-> -1]
NoReturn == [returned |-> FALSE, isNil |-> TRUE, coll |-> <<>>, err |-> NoError]
NoFailure == [page |-> 0]

FetchIdleInit ==
    /\ perPage = 1
    /\ urlParses = TRUE
    /\ readableAfterClose = TRUE
    /\ server = [orgsMode |-> "exact", plansMode |-> "exact",
                 nOrgs |-> 0, nPlans |-> <<>>]
    /\ ctxDone = FALSE
    /\ pc = "idle"
    /\ kind = "orgs"
    /\ orgIdx = 0
    /\ nextPage = 0
    /\ all = <<>>
    /\ response = NoResponse
    /\ body = "none"
    /\ round = NoRound
    /\ fetchRet = NoReturn
    /\ orgs = <<>>
    /\ aggRet = NoReturn
    /\ requests = <<>>
    /\ failure = NoFailure

RespIdle == [op |-> "none"]
NoCall == [op |-> "none"]
NoInstant == [min |-> -1, sec |-> 0]

PlanIdleInit ==
    /\ plan = [Enabled |-> FALSE, NextSync |-> ZeroInstant,
               OriginalSyncDate |-> ZeroInstant]
    /\ clock = ZeroInstant
    /\ ticks = 0
    /\ lastCall = NoCall
    /\ firstStuck = NoInstant

OrgsIdleInit == evaluated = <<>> /\ call = NoCall

Unset == [err |-> "unset"]

TimeIdleInit == tsInput = NoCall /\ tsOut = Unset /\ tsBack = Unset

----------------------------------------------------------------------------
(* Response handling: validateResponse and decode applied to every stream  *)
(* and limit within the bounds.                                            *)

Statuses == {199, 200, 201, 299, 300, 500}
Limits == 0..(MaxBodyLen + 1)

ValidateInputs ==
    [op : {"validateResponse"}, nilArg : {TRUE}, ctxErr : {FALSE},
     status : {http_StatusOK}, body : {<<>>}, broken : {FALSE},
     limit : {MaxBodyLen}, chunk : {1}]
    \cup
    [op : {"validateResponse"}, nilArg : {FALSE}, ctxErr : {TRUE},
     status : Statuses, body : {<<>>, <<"x">>}, broken : {FALSE},
     limit : {MaxBodyLen}, chunk : {1}]
    \cup
    [op : {"validateResponse"}, nilArg : {FALSE}, ctxErr : {FALSE},
     status : Statuses, body : Bodies, broken : BOOLEAN,
     limit : Limits, chunk : {1}]

DecodeInputs ==
    [op : {"decode"}, nilArg : {TRUE}, ctxErr : {FALSE},
     status : {http_StatusOK}, body : {<<>>}, broken : {FALSE},
     limit : {MaxBodyLen}, chunk : {1}]
    \cup
    [op : {"decode"}, nilArg : {FALSE}, ctxErr : {FALSE},
     status : {http_StatusOK}, body : Bodies, broken : BOOLEAN,
     limit : Limits, chunk : 1..MaxChunk]

RespIdleInit == respInput = RespIdle /\ respResult = Unset

RespInit ==
    /\ respInput \in ValidateInputs \cup DecodeInputs
    /\ respResult = Unset
    /\ PlanIdleInit
    /\ OrgsIdleInit
    /\ TimeIdleInit
    /\ FetchIdleInit

ApplyValidateResponse ==
    /\ respInput.op = "validateResponse"
    /\ respResult = Unset
    /\ respResult' = validateResponse(respInput.ctxErr, respInput.nilArg,
                                      respInput.status, respInput.body,
                                      respInput.broken, respInput.limit)
    /\ UNCHANGED <<respInput, planVars, orgsVars, timeVars, fetchVars>>

ApplyDecode ==
    /\ respInput.op = "decode"
    /\ respResult = Unset
    /\ respResult' = decode(respInput.nilArg, respInput.body, respInput.broken,
                            respInput.limit, respInput.chunk)
    /\ UNCHANGED <<respInput, planVars, orgsVars, timeVars, fetchVars>>

RespNext == ApplyValidateResponse \/ ApplyDecode

SpecResp == RespInit /\ [][RespNext]_vars

-----------------------------------------------------------------------------
(* GetOrganizations, the variant that submits one request: prepareRequest,  *)
(* client.Do, validateResponse and decode in one function, the response     *)
(* body closed by a deferred call when the function returns.                *)

\* what GetOrganizations returns: the error and whether the collection is
\* nil.  clientNil: client == nil; prepareErr: prepareRequest fails; doErr:
\* client.Do fails; hasResults: the decoded object carries a results array.
\* The err returned when validateResponse rejects is the variable assigned
\* by prepareRequest, which is nil at that point.
GetOrganizations(in) ==
    IF in.clientNil THEN [err |-> "ErrMissingValue", isNil |-> TRUE]
    ELSE IF in.prepareErr THEN [err |-> "prepareRequest", isNil |-> TRUE]
    ELSE IF in.doErr THEN [err |-> "respErr", isNil |-> TRUE]
    ELSE LET validateErr == validateResponse(in.ctxErr, FALSE, in.status,
                                             in.body, in.broken, in.limit)
             err == NoError
             decodeErr == decode(FALSE, in.body, in.broken, in.limit, in.chunk)
         IN  IF validateErr.err # NoError
             THEN [err |-> err, isNil |-> TRUE]
             ELSE IF decodeErr.err # NoError
             THEN [err |-> decodeErr.err, isNil |-> TRUE]
             ELSE [err |-> NoError, isNil |-> ~in.hasResults]

GetOrganizationsInputs ==
    [op : {"GetOrganizations"}, clientNil : {TRUE}, prepareErr : {FALSE},
     doErr : {FALSE}, ctxErr : {FALSE}, status : {http_StatusOK},
     body : {<<>>}, broken : {FALSE}, limit : {MaxBodyLen}, chunk : {1},
     hasResults : {FALSE}]
    \cup
    [op : {"GetOrganizations"}, clientNil : {FALSE}, prepareErr : {TRUE},
     doErr : {FALSE}, ctxErr : {FALSE}, status : {http_StatusOK},
     body : {<<>>}, broken : {FALSE}, limit : {MaxBodyLen}, chunk : {1},
     hasResults : {FALSE}]
    \cup
    [op : {"GetOrganizations"}, clientNil : {FALSE}, prepareErr : {FALSE},
     doErr : {TRUE}, ctxErr : BOOLEAN, status : {http_StatusOK},
     body : {<<>>}, broken : {FALSE}, limit : {MaxBodyLen}, chunk : {1},
     hasResults : {FALSE}]
    \cup
    [op : {"GetOrganizations"}, clientNil : {FALSE}, prepareErr : {FALSE},
     doErr : {FALSE}, ctxErr : BOOLEAN, status : Statuses,
     body : Bodies, broken : BOOLEAN, limit : {MaxBodyLen, MaxBodyLen + 1},
     chunk : {1}, hasResults : BOOLEAN]

SingleInit ==
    /\ respInput \in GetOrganizationsInputs
    /\ respResult = Unset
    /\ PlanIdleInit
    /\ OrgsIdleInit
    /\ TimeIdleInit
    /\ FetchIdleInit

ApplyGetOrganizations ==
    /\ respInput.op = "GetOrganizations"
    /\ respResult = Unset
    /\ respResult' = GetOrganizations(respInput)
    /\ UNCHANGED <<respInput, planVars, orgsVars, timeVars, fetchVars>>

SingleNext == ApplyGetOrganizations

SpecSingle == SingleInit /\ [][SingleNext]_vars

----------------------------------------------------------------------------
(* Classification: the methods of one sync plan called while the clock     *)
(* advances.                                                               *)

\* 2024-01-01 00:00:00 UTC
Base == [min |-> 1063994400, sec |-> 0]

\* next_sync and sync_date as decoded: the zero instant (null or empty on
\* the wire) or an instant around Base, given in seconds from Base
NextSyncOffsets == {-200000, -86400, -301, -300, -1, 0, 300, 90000}
SyncDateOffsets == {-200000, 300}
ClockSteps == {1, 299, 86399}

PlanInit ==
    /\ plan \in [Enabled : BOOLEAN,
                 NextSync : {ZeroInstant}
                            \cup {AddSeconds(Base, o) : o \in NextSyncOffsets},
                 OriginalSyncDate : {ZeroInstant}
                            \cup {AddSeconds(Base, o) : o \in SyncDateOffsets}]
    /\ clock = Base
    /\ ticks = 0
    /\ lastCall = NoCall
    /\ firstStuck = NoInstant
    /\ OrgsIdleInit
    /\ TimeIdleInit
    /\ RespIdleInit
    /\ FetchIdleInit

Tick ==
    /\ ticks < MaxTicks
    /\ \E d \in ClockSteps : clock' = AddSeconds(clock, d)
    /\ ticks' = ticks + 1
    /\ UNCHANGED <<plan, lastCall, firstStuck, respVars, fetchVars, orgsVars, timeVars>>

CallIsStuck ==
    /\ lastCall' = [op |-> "IsStuck", at |-> clock, val |-> IsStuck(plan, clock)]
    /\ firstStuck' = IF firstStuck = NoInstant /\ IsStuck(plan, clock)
                     THEN clock ELSE firstStuck
    /\ UNCHANGED <<plan, clock, ticks, respVars, fetchVars, orgsVars, timeVars>>

CallIsOKState ==
    /\ lastCall' = [op |-> "IsOKState", at |-> clock, val |-> IsOKState(plan, clock)]
    /\ UNCHANGED <<plan, clock, ticks, firstStuck, respVars, fetchVars, orgsVars, timeVars>>

CallDaysStuck ==
    /\ lastCall' = [op |-> "DaysStuck", at |-> clock, val |-> DaysStuck(plan, clock)]
    /\ UNCHANGED <<plan, clock, ticks, firstStuck, respVars, fetchVars, orgsVars, timeVars>>

PlanNext == Tick \/ CallIsStuck \/ CallIsOKState \/ CallDaysStuck

SpecPlan == PlanInit /\ [][PlanNext]_vars

----------------------------------------------------------------------------
(* Roll-up: the counters and the service state of an Organizations         *)
(* collection.  The counters that depend on the time walk the sync plans   *)
(* in order and each plan's IsStuck reads the clock when it is reached;    *)
(* the clock may advance between two plans and between the two walks       *)
(* ServiceState makes.                                                     *)

RECURSIVE SumOver(_)
SumOver(nums) == IF nums = <<>> THEN 0 ELSE Head(nums) + SumOver(Tail(nums))

\* sps.NumEnabled()
SyncPlans_NumEnabled(sps) ==
    SumOver([j \in DOMAIN sps |-> IF sps[j].Enabled THEN 1 ELSE 0])

SyncPlans_NumDisabled_All(sps) == Len(sps)

\* sps.NumDisabled()
SyncPlans_NumDisabled(sps) ==
    SumOver([j \in DOMAIN sps |-> IF ~sps[j].Enabled THEN 1 ELSE 0])

\* orgs.NumOrgs()
NumOrgs(organizations) == Len(organizations)

\* orgs.NumPlans()
NumPlans(organizations) ==
    SumOver([i \in DOMAIN organizations |-> Len(organizations[i].SyncPlans)])

\* orgs.NumPlansEnabled()
NumPlansEnabled(organizations) ==
    SumOver([i \in DOMAIN organizations |->
                SyncPlans_NumEnabled(organizations[i].SyncPlans)])

\* orgs.NumPlansDisabled()
NumPlansDisabled(organizations) ==
    SumOver([i \in DOMAIN organizations |->
                SyncPlans_NumDisabled(organizations[i].SyncPlans)])

\* the sync plans in the order NumPlansStuck reaches them: organization by
\* organization, and within one in the order of its SyncPlans
RECURSIVE PlansInOrder(_)
PlansInOrder(organizations) ==
    IF organizations = <<>> THEN <<>>
    ELSE Head(organizations).SyncPlans \o PlansInOrder(Tail(organizations))

\* orgs.HasCriticalState()
HasCriticalState(organizations) == FALSE

HasWarningState_MoreThanOne(organizations, numProblemPlans) ==
    ~HasCriticalState(organizations) /\ numProblemPlans > 1

\* orgs.HasWarningState() when its NumProblemPlans() answers numProblemPlans
HasWarningState(organizations, numProblemPlans) ==
    ~HasCriticalState(organizations) /\ numProblemPlans > 0

\* orgs.IsOKState() when the NumProblemPlans() of its HasWarningState()
\* answers numProblemPlans
Orgs_IsOKState(organizations, numProblemPlans) ==
    ~HasWarningState(organizations, numProblemPlans)
        /\ ~HasCriticalState(organizations)

StateOKExitCode == 0
StateWARNINGExitCode == 1
StateCRITICALExitCode == 2
StateUNKNOWNExitCode == 3

StateOK == [Label |-> "OK", ExitCode |-> StateOKExitCode]
StateWARNING == [Label |-> "WARNING", ExitCode |-> StateWARNINGExitCode]
StateCRITICAL == [Label |-> "CRITICAL", ExitCode |-> StateCRITICALExitCode]
StateUNKNOWN == [Label |-> "UNKNOWN", ExitCode |-> StateUNKNOWNExitCode]

\* the sync plans a collection is built from, around the first clock reading
PlanFuture == [Enabled |-> TRUE, NextSync |-> AddSeconds(Base, 300),
               OriginalSyncDate |-> AddSeconds(Base, -200000)]
PlanOverdue == [Enabled |-> TRUE, NextSync |-> AddSeconds(Base, -600),
                OriginalSyncDate |-> AddSeconds(Base, -200000)]
PlanAtGrace == [Enabled |-> TRUE, NextSync |-> AddSeconds(Base, -300),
                OriginalSyncDate |-> AddSeconds(Base, -200000)]
PlanDisabled == [Enabled |-> FALSE, NextSync |-> AddSeconds(Base, -600),
                 OriginalSyncDate |-> AddSeconds(Base, -200000)]
\* next_sync null or empty on the wire: the zero instant
PlanUnscheduled == [Enabled |-> TRUE, NextSync |-> ZeroInstant,
                    OriginalSyncDate |-> AddSeconds(Base, -200000)]

OrgShapes ==
    { [SyncPlans |-> <<>>],
      [SyncPlans |-> <<PlanFuture>>],
      [SyncPlans |-> <<PlanAtGrace>>],
      [SyncPlans |-> <<PlanDisabled, PlanOverdue>>],
      [SyncPlans |-> <<PlanFuture, PlanOverdue, PlanDisabled>>],
      [SyncPlans |-> <<PlanFuture, PlanUnscheduled>>] }

Collections == UNION { [1..n -> OrgShapes] : n \in 0..MaxCollOrgs }

PlainCounters == {"NumOrgs", "NumPlans", "NumPlansEnabled", "NumPlansDisabled"}
ClockCounters == {"NumPlansStuck", "NumProblemPlans", "HasWarningState",
                  "IsOKState", "ServiceState"}

OrgsInit ==
    /\ evaluated \in Collections
    /\ call = NoCall
    /\ plan = [Enabled |-> FALSE, NextSync |-> ZeroInstant,
               OriginalSyncDate |-> ZeroInstant]
    /\ clock = Base
    /\ ticks = 0
    /\ lastCall = NoCall
    /\ firstStuck = NoInstant
    /\ TimeIdleInit
    /\ RespIdleInit
    /\ FetchIdleInit

Idle == IF call = NoCall THEN TRUE ELSE call.done

\* a counter that does not read the clock
CallPlainCounter ==
    /\ Idle
    /\ \E op \in PlainCounters :
        call' = [op |-> op, done |-> TRUE, at0 |-> clock, at1 |-> clock,
                 val |-> CASE op = "NumOrgs" -> NumOrgs(evaluated)
                           [] op = "NumPlans" -> NumPlans(evaluated)
                           [] op = "NumPlansEnabled" ->
                                NumPlansEnabled(evaluated)
                           [] op = "NumPlansDisabled" ->
                                NumPlansDisabled(evaluated)]
    /\ UNCHANGED <<evaluated, planVars, respVars, fetchVars, timeVars>>

\* a method that counts the stuck plans is entered
BeginCount ==
    /\ Idle
    /\ \E op \in ClockCounters :
        call' = [op |-> op, done |-> FALSE, at0 |-> clock, at1 |-> clock,
                 walk |-> 1, k |-> 0, num |-> 0]
    /\ UNCHANGED <<evaluated, planVars, respVars, fetchVars, timeVars>>

Counting == call # NoCall /\ ~call.done

\* NumStuck reaches the next sync plan: if syncPlan.IsStuck() { num++ }
CountPlan ==
    /\ Counting
    /\ call.k < Len(PlansInOrder(evaluated))
    /\ call' = [call EXCEPT
                  !.k = @ + 1,
                  !.num = IF IsStuck(PlansInOrder(evaluated)[call.k + 1], clock)
                          THEN @ + 1 ELSE @]
    /\ UNCHANGED <<evaluated, planVars, respVars, fetchVars, timeVars>>

Return(val) == [op |-> call.op, done |-> TRUE, at0 |-> call.at0,
                at1 |-> clock, val |-> val]

\* NumPlansStuck has walked every organization: the method returns, or
\* ServiceState goes on to its next case
FinishCount ==
    /\ Counting
    /\ call.k = Len(PlansInOrder(evaluated))
    /\ call' =
        CASE call.op \in {"NumPlansStuck", "NumProblemPlans"} ->
                Return(call.num)
          [] call.op = "HasWarningState" ->
                Return(HasWarningState(evaluated, call.num))
          [] call.op = "IsOKState" ->
                Return(Orgs_IsOKState(evaluated, call.num))
          [] call.op = "ServiceState" /\ call.walk = 1 ->
                IF HasCriticalState(evaluated) THEN Return(StateCRITICAL)
                ELSE IF HasWarningState(evaluated, call.num)
                THEN Return(StateWARNING)
                ELSE [call EXCEPT !.walk = 2, !.k = 0, !.num = 0]
          [] call.op = "ServiceState" /\ call.walk = 2 ->
                IF Orgs_IsOKState(evaluated, call.num)
                THEN Return(StateOK)
                ELSE Return(StateUNKNOWN)
    /\ UNCHANGED <<evaluated, planVars, respVars, fetchVars, timeVars>>

OrgsNext == Tick \/ CallPlainCounter \/ BeginCount \/ CountPlan \/ FinishCount

SpecOrgs == OrgsInit /\ [][OrgsNext]_vars

----------------------------------------------------------------------------
(* The verbose report: the lines syncPlansVerboseReport writes for a        *)
(* collection, as records naming the organization and the sync plan a line *)
(* is about.                                                                *)

\* orgs.NumProblemPlans() when every time.Now() of the walk answers now
NumProblemPlansAt(organizations, now) ==
    SumOver([k \in DOMAIN PlansInOrder(organizations) |->
                IF IsStuck(PlansInOrder(organizations)[k], now) THEN 1 ELSE 0])

\* the lines of the inner loop for the sync plans of the organization at
\* index i, from the j-th plan on
RECURSIVE SyncPlanLines(_, _, _, _, _)
SyncPlanLines(organizations, i, j, OmitOKSyncPlans, now) ==
    LET syncPlans == organizations[i].SyncPlans
    IN  IF j > Len(syncPlans) THEN <<>>
        ELSE (IF IsOKState(syncPlans[j], now) /\ OmitOKSyncPlans
              THEN <<>>
              ELSE IF NumProblemPlansAt(organizations, now) > 0
              THEN << [line |-> "plan with days stuck", org |-> i, plan |-> j] >>
              ELSE << [line |-> "plan", org |-> i, plan |-> j] >>)
             \o SyncPlanLines(organizations, i, j + 1, OmitOKSyncPlans, now)

\* the lines of the outer loop from the organization at index i on: with a
\* problem plan in the collection the organization's summary is written and
\* the loop continues with the next organization
RECURSIVE OrgLines(_, _, _, _)
OrgLines(organizations, i, OmitOKSyncPlans, now) ==
    IF i > Len(organizations) THEN <<>>
    ELSE (IF NumProblemPlansAt(organizations, now) > 0
          THEN << [line |-> "org with stuck count", org |-> i, plan |-> 0] >>
          ELSE << [line |-> "org", org |-> i, plan |-> 0] >>
               \o SyncPlanLines(organizations, i, 1, OmitOKSyncPlans, now)
               \o << [line |-> "end of org", org |-> i, plan |-> 0] >>)
         \o OrgLines(organizations, i + 1, OmitOKSyncPlans, now)

\* syncPlansVerboseReport(w, cfg, orgs): what is written to w
syncPlansVerboseReport(OmitOKSyncPlans, organizations, now) ==
    OrgLines(organizations, 1, OmitOKSyncPlans, now)

ReportInit ==
    /\ evaluated \in Collections
    /\ call = NoCall
    /\ plan = [Enabled |-> FALSE, NextSync |-> ZeroInstant,
               OriginalSyncDate |-> ZeroInstant]
    /\ clock = Base
    /\ ticks = 0
    /\ lastCall = NoCall
    /\ firstStuck = NoInstant
    /\ TimeIdleInit
    /\ RespIdleInit
    /\ FetchIdleInit

CallVerboseReport ==
    /\ \E OmitOKSyncPlans \in BOOLEAN :
        call' = [op |-> "syncPlansVerboseReport", done |-> TRUE,
                 OmitOKSyncPlans |-> OmitOKSyncPlans,
                 at0 |-> clock, at1 |-> clock,
                 val |-> syncPlansVerboseReport(OmitOKSyncPlans, evaluated,
                                                clock)]
    /\ UNCHANGED <<evaluated, planVars, respVars, fetchVars, timeVars>>

ReportNext == Tick \/ CallVerboseReport

SpecReport == ReportInit /\ [][ReportNext]_vars

-----------------------------------------------------------------------------
(* SyncPlans.Stuck and SyncPlans.NumStuck on the sync plans of one          *)
(* organization of the collection, both reading the same current time.      *)

\* for _, syncPlan := range sps { if syncPlan.Enabled &&
\*     time.Time(syncPlan.NextSync).Before(now) { matches = append(...) } }
SyncPlans_Stuck(sps, now) ==
    SelectSeq(sps, LAMBDA syncPlan :
                       syncPlan.Enabled /\ Before(syncPlan.NextSync, now))

\* for _, syncPlan := range sps { if syncPlan.IsStuck() { num++ } }
SyncPlans_NumStuck(sps, now) ==
    SumOver([k \in DOMAIN sps |-> IF IsStuck(sps[k], now) THEN 1 ELSE 0])

StuckInit ==
    /\ evaluated \in Collections
    /\ call = NoCall
    /\ plan = [Enabled |-> FALSE, NextSync |-> ZeroInstant,
               OriginalSyncDate |-> ZeroInstant]
    /\ clock = Base
    /\ ticks = 0
    /\ lastCall = NoCall
    /\ firstStuck = NoInstant
    /\ TimeIdleInit
    /\ RespIdleInit
    /\ FetchIdleInit

\* sps.Stuck() and sps.NumStuck() for the sync plans of the i-th organization
CallStuck ==
    /\ \E i \in DOMAIN evaluated :
        call' = [op |-> "Stuck", done |-> TRUE, org |-> i,
                 at0 |-> clock, at1 |-> clock,
                 val |-> SyncPlans_Stuck(evaluated[i].SyncPlans, clock),
                 num |-> SyncPlans_NumStuck(evaluated[i].SyncPlans, clock)]
    /\ UNCHANGED <<evaluated, planVars, respVars, fetchVars, timeVars>>

StuckNext == Tick \/ CallStuck

SpecStuck == StuckInit /\ [][StuckNext]_vars

----------------------------------------------------------------------------
(* Timestamps: StandardAPITime and SyncTime, their UnmarshalJSON and        *)
(* MarshalJSON, and parseDate.  A time.Time is an instant together with     *)
(* the offset of its location from UTC, in minutes.  A string is what it    *)
(* spells: the empty string, the null keyword, a timestamp (its date        *)
(* separator, the date and time of day it shows as a reading of instants,   *)
(* and the zone it ends with: the letters UTC or a numeric offset), or      *)
(* anything else.                                                           *)

TimeKinds == {"StandardAPITime", "SyncTime"}

\* time.Time{}
ZeroTime == [inst |-> ZeroInstant, off |-> 0]

NoZone == [kind |-> "none", minutes |-> 0]
UTCLiteral == [kind |-> "UTC", minutes |-> 0]
Offset(m) == [kind |-> "-0700", minutes |-> m]

EmptyString == [lit |-> "", sep |-> "", wall |-> ZeroInstant, zone |-> NoZone]
JSONNullKeyword ==
    [lit |-> "null", sep |-> "", wall |-> ZeroInstant, zone |-> NoZone]
NotADate ==
    [lit |-> "not a date", sep |-> "", wall |-> ZeroInstant, zone |-> NoZone]
Stamp(sep, wall, zone) ==
    [lit |-> "stamp", sep |-> sep, wall |-> wall, zone |-> zone]

StandardAPITimeLayoutWithTimezone == [sep |-> "-", zone |-> "UTC"]
StandardAPITimeLayoutWithOffset == [sep |-> "-", zone |-> "-0700"]
SyncTimeLayoutWithTimezone == [sep |-> "-", zone |-> "UTC"]
SyncTimeLayoutWithOffset == [sep |-> "-", zone |-> "-0700"]
LegacySyncTimeLayout == [sep |-> "/", zone |-> "-0700"]

InstantOf_IgnoresOffset(wall, minutes) == wall

\* the instant at which a clock minutes ahead of UTC shows wall
InstantOf(wall, minutes) == AddSeconds(wall, -(minutes * 60))

\* what a clock minutes ahead of UTC shows at the instant inst
WallOf(inst, minutes) == AddSeconds(inst, minutes * 60)

\* time.Parse(layout, value): the separators and the zone of the value have
\* to be those of the layout; UTC in a layout is literal text and the time
\* parsed is in UTC, a numeric offset is that of the time parsed
time_Parse(layout, value) ==
    IF value.lit = "stamp" /\ value.sep = layout.sep
            /\ value.zone.kind = layout.zone
    THEN [t |-> IF layout.zone = "UTC"
                THEN [inst |-> value.wall, off |-> 0]
                ELSE [inst |-> InstantOf(value.wall, value.zone.minutes),
                      off |-> value.zone.minutes],
          err |-> NoError]
    ELSE [t |-> ZeroTime, err |-> "ParseError"]

\* t.Format(layout)
time_Format(t, layout) ==
    Stamp(layout.sep, WallOf(t.inst, t.off),
          IF layout.zone = "UTC" THEN UTCLiteral ELSE Offset(t.off))

knownLayouts ==
    << StandardAPITimeLayoutWithTimezone, StandardAPITimeLayoutWithOffset,
       SyncTimeLayoutWithTimezone, SyncTimeLayoutWithOffset,
       LegacySyncTimeLayout >>

\* the loop of parseDate from the i-th layout on; err is the variable
\* declared before the loop, which the loop never assigns: the err of
\* result, err := time.Parse(...) is a new variable of the loop body
RECURSIVE parseDateFrom(_, _, _)
parseDateFrom(datetime, i, err) ==
    IF i > Len(knownLayouts)
    THEN [t |-> ZeroTime, err |-> err]
    ELSE LET parsed == time_Parse(knownLayouts[i], datetime)
         IN  IF parsed.err = NoError
             THEN [t |-> parsed.t, err |-> NoError]
             ELSE parseDateFrom(datetime, i + 1, err)

\* parseDate(datetime): var err error, then the loop
parseDate(datetime) == parseDateFrom(datetime, 1, NoError)

\* JSON data: a string in double quotes, or bare text
Quoted(value) == [quoted |-> TRUE, value |-> value]
Bare(value) == [quoted |-> FALSE, value |-> value]

\* strings.Trim(string(data), "\"")
Trim(data) == data.value

IsNoOp_OnlyEmpty(value) == value = EmptyString

\* value == "" || value == JSONNullKeyword
IsNoOp(value) == value = EmptyString \/ value = JSONNullKeyword

\* (dt *StandardAPITime) UnmarshalJSON(data) and (dt *SyncTime)
\* UnmarshalJSON(data): the error returned and *dt afterwards
UnmarshalJSON(timeKind, dt, data) ==
    LET value == Trim(data)
    IN  IF IsNoOp(value)
        THEN [err |-> NoError, dt |-> dt]
        ELSE LET parsed == parseDate(value)
             IN  IF parsed.err # NoError
                 THEN [err |-> parsed.err, dt |-> dt]
                 ELSE [err |-> NoError, dt |-> parsed.t]

\* (dt StandardAPITime) MarshalJSON() and (dt SyncTime) MarshalJSON():
\* json.Marshal of the formatted string
MarshalJSON(timeKind, dt) ==
    [err |-> NoError,
     data |-> Quoted(time_Format(dt, IF timeKind = "StandardAPITime"
                                     THEN StandardAPITimeLayoutWithOffset
                                     ELSE SyncTimeLayoutWithOffset))]

\* offsets from UTC in minutes, instants and the readings strings show
OffsetMinutes == {-300, 0, 330}
Instants == {ZeroInstant, Base, AddSeconds(Base, 1), AddSeconds(Base, -200000)}
Walls == {ZeroInstant, Base, AddSeconds(Base, 1), AddSeconds(Base, 86399)}

\* the values a StandardAPITime or SyncTime holds: the zero value, or what
\* UnmarshalJSON stored
TimeValues == [inst : Instants, off : OffsetMinutes]

Strings ==
    {EmptyString, JSONNullKeyword, NotADate}
    \cup { Stamp(sep, wall, zone) :
            sep \in {"-", "/"}, wall \in Walls,
            zone \in {UTCLiteral} \cup { Offset(m) : m \in OffsetMinutes } }

JSONData == { Quoted(v) : v \in Strings } \cup { Bare(v) : v \in Strings }

UnmarshalInputs ==
    [op : {"UnmarshalJSON"}, kind : TimeKinds,
     dt : {ZeroTime, [inst |-> Base, off |-> -300]}, data : JSONData]

MarshalInputs ==
    [op : {"MarshalJSON"}, kind : TimeKinds, dt : TimeValues,
     data : {Bare(EmptyString)}]

TimeInit ==
    /\ tsInput \in UnmarshalInputs \cup MarshalInputs
    /\ tsOut = Unset
    /\ tsBack = Unset
    /\ OrgsIdleInit
    /\ PlanIdleInit
    /\ RespIdleInit
    /\ FetchIdleInit

ApplyUnmarshalJSON ==
    /\ tsInput.op = "UnmarshalJSON"
    /\ tsOut = Unset
    /\ tsOut' = UnmarshalJSON(tsInput.kind, tsInput.dt, tsInput.data)
    /\ UNCHANGED <<tsInput, tsBack, orgsVars, planVars, respVars, fetchVars>>

ApplyMarshalJSON ==
    /\ tsInput.op = "MarshalJSON"
    /\ tsOut = Unset
    /\ tsOut' = MarshalJSON(tsInput.kind, tsInput.dt)
    /\ UNCHANGED <<tsInput, tsBack, orgsVars, planVars, respVars, fetchVars>>

\* the data MarshalJSON produced is decoded into a fresh value
UnmarshalMarshalled ==
    /\ tsInput.op = "MarshalJSON"
    /\ tsOut # Unset
    /\ tsBack = Unset
    /\ tsBack' = UnmarshalJSON(tsInput.kind, ZeroTime, tsOut.data)
    /\ UNCHANGED <<tsInput, tsOut, orgsVars, planVars, respVars, fetchVars>>

\* the value UnmarshalJSON left in the destination is encoded
MarshalUnmarshalled ==
    /\ tsInput.op = "UnmarshalJSON"
    /\ tsOut # Unset
    /\ tsBack = Unset
    /\ tsBack' = MarshalJSON(tsInput.kind, tsOut.dt)
    /\ UNCHANGED <<tsInput, tsOut, orgsVars, planVars, respVars, fetchVars>>

TimeNext ==
    \/ ApplyUnmarshalJSON
    \/ ApplyMarshalJSON
    \/ UnmarshalMarshalled
    \/ MarshalUnmarshalled

SpecTime == TimeInit /\ [][TimeNext]_vars

----------------------------------------------------------------------------
(* NullString: a string that may be null on the wire.  Strings and JSON     *)
(* data are sequences of characters.                                        *)

Quote == "\""
Backslash == "\\"
Chars == {"a", Quote, Backslash}

NullKeywordText == <<"n", "u", "l", "l">>

\* encoding/json's encoding of the characters of a string: a quote and a
\* backslash are written with a backslash before them
RECURSIVE Escape(_)
Escape(str) ==
    IF str = <<>> THEN <<>>
    ELSE (IF Head(str) \in {Quote, Backslash}
          THEN <<Backslash, Head(str)>> ELSE <<Head(str)>>)
         \o Escape(Tail(str))

\* json.Marshal(string(ns))
json_Marshal(str) == <<Quote>> \o Escape(str) \o <<Quote>>

RECURSIVE TrimLeft(_, _)
TrimLeft(str, cut) ==
    IF str # <<>> /\ Head(str) = cut THEN TrimLeft(Tail(str), cut) ELSE str

RECURSIVE TrimRight(_, _)
TrimRight(str, cut) ==
    IF str # <<>> /\ str[Len(str)] = cut
    THEN TrimRight(SubSeq(str, 1, Len(str) - 1), cut)
    ELSE str

\* strings.Trim(str, "\""): every leading and trailing quote is removed
strings_Trim(str, cut) == TrimRight(TrimLeft(str, cut), cut)

\* (ns NullString) MarshalJSON()
NullString_MarshalJSON(ns) ==
    IF Len(ns) = 0
    THEN [err |-> NoError, data |-> NullKeywordText]
    ELSE [err |-> NoError, data |-> json_Marshal(ns)]

\* (ns *NullString) UnmarshalJSON(data): the error returned and *ns
\* afterwards
NullString_UnmarshalJSON(data) ==
    IF data = NullKeywordText
    THEN [err |-> NoError, ns |-> <<>>]
    ELSE [err |-> NoError, ns |-> strings_Trim(data, Quote)]

NullStrings == SeqsUpTo(Chars, MaxStrLen)

NullStringInit ==
    /\ tsInput \in [op : {"NullString.MarshalJSON"}, ns : NullStrings]
                   \cup [op : {"NullString.UnmarshalJSON"},
                         data : {NullKeywordText}
                                \cup {json_Marshal(str) : str \in NullStrings}]
    /\ tsOut = Unset
    /\ tsBack = Unset
    /\ OrgsIdleInit
    /\ PlanIdleInit
    /\ RespIdleInit
    /\ FetchIdleInit

ApplyNullStringMarshalJSON ==
    /\ tsInput.op = "NullString.MarshalJSON"
    /\ tsOut = Unset
    /\ tsOut' = NullString_MarshalJSON(tsInput.ns)
    /\ UNCHANGED <<tsInput, tsBack, orgsVars, planVars, respVars, fetchVars>>

ApplyNullStringUnmarshalJSON ==
    /\ tsInput.op = "NullString.UnmarshalJSON"
    /\ tsOut = Unset
    /\ tsOut' = NullString_UnmarshalJSON(tsInput.data)
    /\ UNCHANGED <<tsInput, tsBack, orgsVars, planVars, respVars, fetchVars>>

\* the data MarshalJSON produced is decoded
UnmarshalMarshalledNullString ==
    /\ tsInput.op = "NullString.MarshalJSON"
    /\ tsOut # Unset
    /\ tsBack = Unset
    /\ tsBack' = NullString_UnmarshalJSON(tsOut.data)
    /\ UNCHANGED <<tsInput, tsOut, orgsVars, planVars, respVars, fetchVars>>

NullStringNext ==
    \/ ApplyNullStringMarshalJSON
    \/ ApplyNullStringUnmarshalJSON
    \/ UnmarshalMarshalledNullString

SpecNullString == NullStringInit /\ [][NullStringNext]_vars

----------------------------------------------------------------------------
(* GetOrgsWithSyncPlans: GetOrganizations, then for each organization in   *)
(* turn GetSyncPlans, that is getOrgSyncPlans.  A page round is            *)
(* submitAPIQueryRequest (prepareRequest and client.Do, then               *)
(* validateResponse and the deferred Close) followed by the caller's       *)
(* decode, accumulation and stop test.                                     *)

\* client.AuthInfo.ReadLimit
ReadLimit == MaxBodyLen

FetchStatuses == {200, 500}

\* the organization whose sync plans are being fetched (0: none)
CurrentOrg == IF kind = "orgs" THEN 0 ELSE orgs[orgIdx].ID

\* what the server holds and how it reports it, for the endpoint in use
RecordsHeld == IF kind = "orgs" THEN server.nOrgs ELSE server.nPlans[CurrentOrg]
SubtotalMode == IF kind = "orgs" THEN server.orgsMode ELSE server.plansMode

\* the decoded "results": organizations, and sync plans as yet without the
\* values of their organization (names are modelled by IDs)
Organizations(results) ==
    [i \in DOMAIN results |-> [ID |-> results[i], SyncPlans |-> <<>>]]
SyncPlansOf(results) ==
    [i \in DOMAIN results |->
        [ID |-> results[i], OrganizationID |-> CurrentOrg,
         OrganizationName |-> 0, OrganizationLabel |-> <<>>,
         OrganizationTitle |-> <<>>]]

\* org.Label and org.Title of the organization with the given ID
LabelOf(org) == <<"label", org>>
TitleOf(org) == <<"title", org>>

Annotate_NameOnly(syncPlans, org) ==
    [i \in DOMAIN syncPlans |-> [syncPlans[i] EXCEPT !.OrganizationName = org]]

\* "Annotate Sync Plans with specific Org values for convenience"
Annotate(syncPlans, org) ==
    [i \in DOMAIN syncPlans |->
        [syncPlans[i] EXCEPT !.OrganizationName = org,
                             !.OrganizationLabel = LabelOf(org),
                             !.OrganizationTitle = TitleOf(org)]]

Accumulate_LastPageOnly(collection, new) == new

\* append(allOrgs, ...) and append(allSyncPlans, ...)
Accumulate(collection, new) == collection \o new

FailFetch_Retry(err) ==
    /\ pc' = "request"
    /\ UNCHANGED fetchRet

\* return nil, err
FailFetch(err) ==
    /\ fetchRet' = [returned |-> TRUE, isNil |-> TRUE, coll |-> <<>>, err |-> err]
    /\ pc' = "returned"

\* return allOrgs, nil and return allSyncPlans, nil
ReturnFetch(collection) ==
    /\ fetchRet' = [returned |-> TRUE, isNil |-> FALSE, coll |-> collection,
                    err |-> NoError]
    /\ pc' = "returned"

Failed == failure' = IF failure = NoFailure
                     THEN [page |-> nextPage', sent |-> Len(requests')]
                     ELSE failure

FetchInit ==
    /\ perPage \in 1..MaxPerPage
    /\ urlParses \in BOOLEAN
    /\ readableAfterClose \in BOOLEAN
    /\ \E n \in 0..MaxOrgs :
         server \in {sv \in [orgsMode : ServerModes, plansMode : ServerModes,
                              nOrgs : {n}, nPlans : [1..n -> 0..MaxPlans]] :
                        sv.orgsMode = "exact" \/ sv.plansMode = "exact"}
    /\ ctxDone = FALSE
    /\ pc = "request"
    /\ kind = "orgs"
    /\ orgIdx = 0
    /\ nextPage = 0
    /\ all = <<>>
    /\ response = NoResponse
    /\ body = "none"
    /\ round = NoRound
    /\ fetchRet = NoReturn
    /\ orgs = <<>>
    /\ aggRet = NoReturn
    /\ requests = <<>>
    /\ failure = NoFailure
    /\ RespIdleInit
    /\ PlanIdleInit
    /\ OrgsIdleInit
    /\ TimeIdleInit

Close_Skipped(b) == b

\* response.Body.Close()
Close(b) == "closed"

NextPageAfter_Skips(page) == page + 2

\* nextPage++
NextPageAfter(page) == page + 1

DoResponds_DespiteContext == TRUE

\* client.Do(request) answers with a response only while the context the
\* request was built with (http.NewRequestWithContext) is not done
DoResponds == ~ctxDone

\* the head of a page round: nextPage++, prepareRequest, client.Do
SubmitRequest ==
    /\ pc = "request"
    /\ nextPage < MaxPages
    /\ nextPage' = NextPageAfter(nextPage)
    /\ IF ~urlParses
       THEN /\ UNCHANGED <<requests, response, body>>
            /\ Failed
            /\ FailFetch("PrepError")
       ELSE /\ requests' = Append(requests,
                                  [kind |-> kind, org |-> CurrentOrg,
                                   page |-> nextPage', per_page |-> perPage,
                                   full_result |-> 1])
            /\ \/ /\ UNCHANGED <<response, body>>
                  /\ Failed
                  /\ FailFetch(IF ctxDone THEN "ctx.Err" ELSE "TransportError")
               \/ /\ DoResponds
                  /\ \E st \in FetchStatuses, b \in {PageBody, TruncatedPageBody} :
                       response' =
                           [status |-> st, body |-> b,
                            subtotal |-> ReportedSubtotal(SubtotalMode,
                                                          RecordsHeld, nextPage'),
                            results |-> PageRecords(RecordsHeld, perPage,
                                                    nextPage')]
                  /\ body' = "open"
                  /\ pc' = "validate"
                  /\ UNCHANGED <<fetchRet, failure>>
    /\ UNCHANGED <<envVars, ctxDone, kind, orgIdx, all, round, orgs, aggRet>>
    /\ UNCHANGED <<respVars, planVars, orgsVars, timeVars>>

\* the rest of submitAPIQueryRequest: validateResponse, then the deferred
\* response.Body.Close() as the function returns
ValidateResponse ==
    /\ pc = "validate"
    /\ UNCHANGED <<envVars, ctxDone, kind, orgIdx, nextPage, all, round, orgs,
                   aggRet, requests>>
    /\ UNCHANGED <<respVars, planVars, orgsVars, timeVars>>
    /\ LET v == validateResponse(ctxDone, FALSE, response.status,
                                 response.body, FALSE, ReadLimit)
       IN  IF v.err # NoError
           THEN /\ response' = NoResponse
                /\ Failed
                /\ FailFetch(v.err)
           ELSE /\ pc' = "decode"
                /\ UNCHANGED <<response, fetchRet, failure>>
    /\ body' = Close(body)

\* what decode reads from response.Body: the page, or nothing and a read
\* error when the body is closed and no longer readable
DecodeBody ==
    IF body = "open" \/ readableAfterClose
    THEN decode(FALSE, response.body, FALSE, ReadLimit, MaxChunk)
    ELSE decode(FALSE, <<>>, TRUE, ReadLimit, MaxChunk)

\* GetOrganizations after submitAPIQueryRequest: decode, Close, append,
\* then count and test
ProcessOrgsPage ==
    /\ pc = "decode"
    /\ kind = "orgs"
    /\ UNCHANGED <<envVars, ctxDone, kind, orgIdx, nextPage, orgs, aggRet,
                   requests>>
    /\ UNCHANGED <<respVars, planVars, orgsVars, timeVars>>
    /\ response' = NoResponse
    /\ IF DecodeBody.err # NoError
       THEN /\ UNCHANGED <<all, round, body>>
            /\ Failed
            /\ FailFetch(DecodeBody.err)
       ELSE LET allOrgs == Accumulate(all, Organizations(response.results))
                numNewOrgs == Len(response.results)
                numCollectedOrgs == Len(allOrgs)
                numOrgsRemaining == response.subtotal - numCollectedOrgs
            IN  /\ body' = Close(body)
                /\ all' = allOrgs
                /\ round' = [new |-> numNewOrgs, collected |-> numCollectedOrgs,
                             remaining |-> numOrgsRemaining,
                             subtotal |-> response.subtotal]
                /\ UNCHANGED failure
                /\ IF numOrgsRemaining # 0
                   THEN pc' = "request" /\ UNCHANGED fetchRet
                   ELSE ReturnFetch(allOrgs)

\* getOrgSyncPlans after submitAPIQueryRequest: decode, annotate, count,
\* append, then test
ProcessSyncPlansPage ==
    /\ pc = "decode"
    /\ kind = "plans"
    /\ UNCHANGED <<envVars, ctxDone, kind, orgIdx, nextPage, orgs, aggRet,
                   requests, body>>
    /\ UNCHANGED <<respVars, planVars, orgsVars, timeVars>>
    /\ response' = NoResponse
    /\ IF DecodeBody.err # NoError
       THEN /\ UNCHANGED <<all, round>>
            /\ Failed
            /\ FailFetch(DecodeBody.err)
       ELSE LET syncPlans == Annotate(SyncPlansOf(response.results), CurrentOrg)
                numNewSyncPlans == Len(syncPlans)
                numCollectedSyncPlans == Len(all)
                numSyncPlansRemaining == response.subtotal - numCollectedSyncPlans
                allSyncPlans == Accumulate(all, syncPlans)
            IN  /\ all' = allSyncPlans
                /\ round' = [new |-> numNewSyncPlans,
                             collected |-> numCollectedSyncPlans,
                             remaining |-> numSyncPlansRemaining,
                             subtotal |-> response.subtotal]
                /\ UNCHANGED failure
                /\ IF numSyncPlansRemaining = 0
                   THEN ReturnFetch(allSyncPlans)
                   ELSE pc' = "request" /\ UNCHANGED fetchRet

StartSyncPlansFetch_SkipsOne(i) ==
    /\ kind' = "plans"
    /\ orgIdx' = Min(i + 1, Len(orgs'))
    /\ nextPage' = 0
    /\ all' = <<>>
    /\ round' = NoRound
    /\ fetchRet' = NoReturn
    /\ pc' = "request"

\* entry of getOrgSyncPlans for the organization at index i
StartSyncPlansFetch(i) ==
    /\ kind' = "plans"
    /\ orgIdx' = i
    /\ nextPage' = 0
    /\ all' = <<>>
    /\ round' = NoRound
    /\ fetchRet' = NoReturn
    /\ pc' = "request"

FailAggregation_Partial(err, org) ==
    /\ aggRet' = [returned |-> TRUE, isNil |-> FALSE, coll |-> orgs,
                  err |-> err, cause |-> fetchRet.err, org |-> org]
    /\ pc' = "done"

\* return nil, fmt.Errorf(err + ": %w", orgsErr), and for the sync plans of
\* an organization return nil, fmt.Errorf(err + " (name: %s, id: %d) %w",
\* orgs[i].Name, orgs[i].ID, syncPlansErr)
FailAggregation(err, org) ==
    /\ aggRet' = [returned |-> TRUE, isNil |-> TRUE, coll |-> <<>>,
                  err |-> err, cause |-> fetchRet.err, org |-> org]
    /\ pc' = "done"

\* GetOrgsWithSyncPlans once GetOrganizations has returned
OrgsFetched ==
    /\ pc = "returned"
    /\ kind = "orgs"
    /\ UNCHANGED <<envVars, ctxDone, response, body, requests, failure>>
    /\ UNCHANGED <<respVars, planVars, orgsVars, timeVars>>
    /\ IF fetchRet.err # NoError
       THEN /\ FailAggregation("failed to retrieve organizations", 0)
            /\ UNCHANGED <<kind, orgIdx, nextPage, all, round, fetchRet, orgs>>
       ELSE /\ orgs' = fetchRet.coll
            /\ IF Len(fetchRet.coll) = 0
               THEN /\ aggRet' = [returned |-> TRUE, isNil |-> FALSE,
                                  coll |-> fetchRet.coll, err |-> NoError,
                                  cause |-> NoError, org |-> 0]
                    /\ pc' = "done"
                    /\ UNCHANGED <<kind, orgIdx, nextPage, all, round, fetchRet>>
               ELSE /\ StartSyncPlansFetch(1)
                    /\ UNCHANGED aggRet

\* GetOrgsWithSyncPlans once GetSyncPlans(ctx, client, orgs[i]) has returned
\* what getOrgSyncPlans returned
SyncPlansFetched ==
    /\ pc = "returned"
    /\ kind = "plans"
    /\ UNCHANGED <<envVars, ctxDone, response, body, requests, failure>>
    /\ UNCHANGED <<respVars, planVars, orgsVars, timeVars>>
    /\ IF fetchRet.err # NoError
       THEN /\ FailAggregation(
                    "failed to retrieve sync plans for organization", CurrentOrg)
            /\ UNCHANGED <<kind, orgIdx, nextPage, all, round, fetchRet, orgs>>
       ELSE /\ orgs' = [orgs EXCEPT ![orgIdx].SyncPlans = fetchRet.coll]
            /\ IF orgIdx < Len(orgs)
               THEN /\ StartSyncPlansFetch(orgIdx + 1)
                    /\ UNCHANGED aggRet
               ELSE /\ aggRet' = [returned |-> TRUE, isNil |-> FALSE,
                                  coll |-> orgs', err |-> NoError,
                                  cause |-> NoError, org |-> 0]
                    /\ pc' = "done"
                    /\ UNCHANGED <<kind, orgIdx, nextPage, all, round, fetchRet>>

\* the deadline of the context passes, or the context is cancelled
Cancel ==
    /\ pc \notin {"idle", "done"}
    /\ ~ctxDone
    /\ ctxDone' = TRUE
    /\ UNCHANGED <<envVars, pc, kind, orgIdx, nextPage, all, response, body,
                   round, fetchRet, orgs, aggRet, requests, failure>>
    /\ UNCHANGED <<respVars, planVars, orgsVars, timeVars>>

Next ==
    \/ SubmitRequest
    \/ ValidateResponse
    \/ ProcessOrgsPage
    \/ ProcessSyncPlansPage
    \/ OrgsFetched
    \/ SyncPlansFetched
    \/ Cancel

Spec == FetchInit /\ [][Next]_vars

----------------------------------------------------------------------------
(* Properties of the paginated fetches (under Spec) *)

\* the fetch in progress has returned a collection and no error
FetchSucceeded == pc = "returned" /\ fetchRet.err = NoError

\* requests the fetch in progress has handed to client.Do
RequestsOfFetch ==
    {i \in DOMAIN requests :
        requests[i].kind = kind /\ requests[i].org = CurrentOrg}

C2_AsStated ==
    /\ (pc = "request" /\ round # NoRound) => round.subtotal - Len(all) # 0
    /\ (FetchSucceeded /\ SubtotalMode = "exact") =>
          Cardinality(RequestsOfFetch) =
              IF RecordsHeld = 0 THEN 1
              ELSE (RecordsHeld + perPage - 1) \div perPage

\* C3 as stated: a page that brings no new record while the computed
\* remainder is not zero ends the fetch with an error; no further page is
\* asked for.
C3_AsStated ==
    (round # NoRound /\ round.new = 0 /\ round.remaining # 0) =>
        /\ pc \in {"returned", "done"}
        /\ fetchRet.isNil
        /\ fetchRet.err # NoError

\* C4: once a page round has failed (prepareRequest, client.Do,
\* validateResponse or decode returned an error) the fetch has returned a
\* nil collection and a non-nil error, and neither the failed page nor any
\* later page is requested: the page counter and the number of requests
\* stay what they were at the failure.
C4_FirstFailureAborts ==
    failure # NoFailure =>
        /\ pc \in {"returned", "done"}
        /\ fetchRet.returned /\ fetchRet.isNil /\ fetchRet.err # NoError
        /\ nextPage = failure.page
        /\ Len(requests) = failure.sent
        /\ pc = "done" => aggRet.isNil /\ aggRet.cause = fetchRet.err

\* the second page of a fetch arrived cut short and failed to decode
C4_Witness ==
    /\ failure # NoFailure
    /\ failure.page = 2
    /\ pc = "returned"
    /\ fetchRet.isNil
    /\ fetchRet.err = "io.ErrUnexpectedEOF"

----------------------------------------------------------------------------
(* Properties of response handling (under SpecResp)                        *)

Validated == respInput.op = "validateResponse" /\ respResult # Unset
Decoded == respInput.op = "decode" /\ respResult # Unset

\* the bytes of the body that lie within the read limit
Seen == [i \in 1..Min(Len(respInput.body), respInput.limit) |-> respInput.body[i]]

\* the stream fails with a read error before the read limit is reached
ReadFails == respInput.broken /\ respInput.limit > Len(respInput.body)

StatusIn2xx == respInput.status >= 200 /\ respInput.status <= 299

\* C5 as stated: with a live context a response is accepted exactly when its
\* status is in 200..299, and every other status yields an error that wraps
\* ErrHTTPResponseOutsideRange and carries the body text up to the limit.
C5_AsStated ==
    (Validated /\ ~respInput.nilArg /\ ~respInput.ctxErr) =>
        /\ (respResult.err = NoError) <=> StatusIn2xx
        /\ ~StatusIn2xx => /\ respResult.err = "ErrHTTPResponseOutsideRange"
                           /\ respResult.text = Seen

\* C5 (amended): with a live context a response is accepted exactly when its
\* status is in 200..299; every other status yields an error, which wraps
\* ErrHTTPResponseOutsideRange and carries the body text up to the read
\* limit when the body can be read, and is the read error when reading the
\* body fails before the limit.
C5_StatusRange ==
    (Validated /\ ~respInput.nilArg /\ ~respInput.ctxErr) =>
        /\ (respResult.err = NoError) <=> StatusIn2xx
        /\ (~StatusIn2xx /\ ~ReadFails) =>
              /\ respResult.err = "ErrHTTPResponseOutsideRange"
              /\ respResult.text = Seen
        /\ (~StatusIn2xx /\ ReadFails) => respResult.err = "ReadError"

\* a tolerated status (299) was accepted, and a status outside the range was
\* rejected with a body cut at the limit
C5_Witness ==
    /\ Validated /\ ~respInput.nilArg /\ ~respInput.ctxErr
    /\ \/ respInput.status = 299 /\ respResult.err = NoError
       \/ /\ respInput.status = 500
          /\ respResult.err = "ErrHTTPResponseOutsideRange"
          /\ Len(respInput.body) > respInput.limit
          /\ Len(respResult.text) = respInput.limit /\ respInput.limit > 0

(* JSON values, stated on the bytes themselves *)
Opens(s, i, k) == Cardinality({m \in i..k : s[m] = "{"})
Closes(s, i, k) == Cardinality({m \in i..k : s[m] = "}"})
Blank(s, i, j) == \A k \in i..j : s[k] = " "
IsObjectAt(s, i, j) ==
    /\ s[i] = "{"
    /\ Opens(s, i, j) = Closes(s, i, j)
    /\ \A k \in i..(j - 1) : Opens(s, i, k) > Closes(s, i, k)
IsNumberAt(s, i, j) ==
    /\ \A k \in i..j : s[k] = "1"
    /\ j = Len(s) \/ s[j + 1] # "1"
IsNullAt(s, i, j) == i = j /\ s[i] = "n"
IsValueAt(s, i, j) == IsObjectAt(s, i, j) \/ IsNumberAt(s, i, j) \/ IsNullAt(s, i, j)

\* s is one JSON value, with whitespace around it at most
ExactlyOneValue(s) ==
    \E i \in 1..Len(s) : \E j \in i..Len(s) :
        Blank(s, 1, i - 1) /\ IsValueAt(s, i, j) /\ Blank(s, j + 1, Len(s))

\* s starts with a JSON value and a second one starts after it
SecondValueFollows(s) ==
    \E i \in 1..Len(s) : \E j \in i..Len(s) : \E k \in (j + 1)..Len(s) :
        /\ Blank(s, 1, i - 1) /\ IsValueAt(s, i, j) /\ Blank(s, j + 1, k - 1)
        /\ s[k] \in {"{", "1", "n"}
        /\ IsNumberAt(s, i, j) => s[k] # "1"

AcceptedValueEndsAt(s, j) ==
    \E i \in 1..j : Blank(s, 1, i - 1) /\ (IsObjectAt(s, i, j) \/ IsNullAt(s, i, j))

\* nothing but whitespace follows position j, or the next byte that is not
\* whitespace is a closing brace
NothingMoreAfter(s, j) ==
    \/ Blank(s, j + 1, Len(s))
    \/ \E k \in (j + 1)..Len(s) : Blank(s, j + 1, k - 1) /\ s[k] = "}"

C7_ReadLimit ==
    (respResult # Unset /\ ~respInput.nilArg) =>
        /\ respResult.consumed <= respInput.limit
        /\ (Validated /\ respResult.err = "ErrHTTPResponseOutsideRange") =>
              /\ Len(respResult.text) <= respInput.limit
              /\ Len(respInput.body) > respInput.limit =>
                    respResult.text = Seen
        /\ (Decoded /\ Len(respInput.body) > respInput.limit) =>
              respResult.err =
                decode(FALSE, Seen, FALSE, respInput.limit, respInput.chunk).err

\* a body longer than the limit was read up to the limit, by decode and by
\* validateResponse
C7_Witness ==
    /\ respResult # Unset /\ ~respInput.nilArg
    /\ respInput.limit > 0
    /\ Len(respInput.body) > respInput.limit
    /\ respResult.consumed = respInput.limit
    /\ respInput.op = "decode"

----------------------------------------------------------------------------
(* Properties of the classification (SpecPlan) *)

Called(op) == lastCall.op = op

\* seconds from instant t to the clock reading of the last call, for an
\* instant t around Base
SecondsSince(t) == (lastCall.at.min - t.min) * 60 + (lastCall.at.sec - t.sec)

GraceSeconds == syncTimeGraceMinutes * 60
SecondsPerDay == 24 * 60 * 60

\* C8: a sync plan whose enabled flag is false is never stuck: IsStuck
\* answers false and IsOKState answers true, whatever next_sync is.
C8_DisabledNeverStuck ==
    ~plan.Enabled =>
        /\ Called("IsStuck") => lastCall.val = FALSE
        /\ Called("IsOKState") => lastCall.val = TRUE

\* a disabled plan whose next_sync lies more than the grace period in the
\* past, or is the zero instant, has been asked and answered not stuck
C8_Witness ==
    /\ ~plan.Enabled
    /\ Called("IsStuck")
    /\ lastCall.val = FALSE
    /\ \/ IsZero(plan.NextSync)
       \/ SecondsSince(plan.NextSync) > GraceSeconds

\* C9: for an enabled plan, with diffMinutes the time from next_sync to
\* now, IsStuck answers false when diffMinutes <= 0 (next_sync not before
\* now), false when 0 < diffMinutes <= 5, and true when diffMinutes > 5;
\* once a call has answered true, a call at the same or a later clock
\* reading answers true.
C9_GraceThreshold ==
    (plan.Enabled /\ Called("IsStuck")) =>
        /\ lastCall.val =
              (IF IsZero(plan.NextSync) THEN TRUE
               ELSE SecondsSince(plan.NextSync) > GraceSeconds)
        /\ (firstStuck # NoInstant /\ ~Before(lastCall.at, firstStuck))
              => lastCall.val = TRUE

\* an enabled plan answered stuck one second past the grace period, and
\* asked again at a later clock reading answers stuck again
C9_Witness ==
    /\ plan.Enabled
    /\ Called("IsStuck")
    /\ ~IsZero(plan.NextSync)
    /\ firstStuck = AddSeconds(plan.NextSync, GraceSeconds + 1)
    /\ Before(firstStuck, lastCall.at)
    /\ lastCall.val = TRUE

\* the instant DaysStuck measures from
DaysStuckBase == IF IsZero(plan.NextSync) THEN plan.OriginalSyncDate
                 ELSE plan.NextSync

\* C10 as stated: DaysStuck is 0 for a disabled plan; for an enabled plan it
\* is the elapsed time since next_sync (since the original sync date when
\* next_sync is the zero instant) in whole days, truncated toward zero and
\* clamped at 0; it is never negative.
C10_AsStated ==
    Called("DaysStuck") =>
        /\ lastCall.val >= 0
        /\ ~plan.Enabled => lastCall.val = 0
        /\ (plan.Enabled /\ ~IsZero(DaysStuckBase)) =>
              IF SecondsSince(DaysStuckBase) < 0 THEN lastCall.val = 0
              ELSE /\ lastCall.val * SecondsPerDay <= SecondsSince(DaysStuckBase)
                   /\ SecondsSince(DaysStuckBase) < (lastCall.val + 1) * SecondsPerDay
        /\ (plan.Enabled /\ IsZero(DaysStuckBase)) =>
              \* minutes since the zero instant are the clock reading itself
              /\ lastCall.val * 1440 <= lastCall.at.min
              /\ lastCall.at.min < (lastCall.val + 1) * 1440

\* C10: as C10_AsStated, except that the elapsed time is a Duration and so
\* at most MaxDuration: measured from the zero instant (next_sync and the
\* original sync date both zero) DaysStuck is the whole days in MaxDuration.
C10_DaysStuck ==
    Called("DaysStuck") =>
        /\ lastCall.val >= 0
        /\ ~plan.Enabled => lastCall.val = 0
        /\ (plan.Enabled /\ ~IsZero(DaysStuckBase)) =>
              IF SecondsSince(DaysStuckBase) < 0 THEN lastCall.val = 0
              ELSE /\ lastCall.val * SecondsPerDay <= SecondsSince(DaysStuckBase)
                   /\ SecondsSince(DaysStuckBase) < (lastCall.val + 1) * SecondsPerDay
        /\ (plan.Enabled /\ IsZero(DaysStuckBase)) =>
              lastCall.val = MaxDuration.min \div 1440

\* an enabled plan whose next_sync is the zero instant has been measured
\* from its original sync date, a whole day or more in the past
C10_Witness ==
    /\ plan.Enabled
    /\ Called("DaysStuck")
    /\ IsZero(plan.NextSync)
    /\ ~IsZero(plan.OriginalSyncDate)
    /\ lastCall.val >= 1

----------------------------------------------------------------------------
(* Properties of the roll-up.                                              *)

\* the method op has returned
Returned(op) == call # NoCall /\ call.op = op /\ call.done

\* positions <<i, j>> of the sync plans attached to the collection
PlanPositions ==
    UNION { { <<i, j>> : j \in DOMAIN evaluated[i].SyncPlans } :
            i \in DOMAIN evaluated }

PlanAt(pos) == evaluated[pos[1]].SyncPlans[pos[2]]

\* the number of attached plans whose IsStuck answers true at the instant now
StuckAt(now) == Cardinality({ pos \in PlanPositions : IsStuck(PlanAt(pos), now) })

\* C11: ServiceState returns OK with the OK exit code when no attached plan
\* is a problem plan (none is stuck by the time the call returns), the empty
\* collection included, and WARNING with the WARNING exit code when at least
\* one attached plan is a problem plan (stuck when the call is entered).
C11_ServiceState ==
    Returned("ServiceState") =>
        /\ (StuckAt(call.at1) = 0 =>
                call.val = [Label |-> "OK", ExitCode |-> 0])
        /\ (StuckAt(call.at0) >= 1 =>
                call.val = [Label |-> "WARNING", ExitCode |-> 1])

C11_Witness ==
    /\ Returned("ServiceState")
    /\ Len(evaluated) = 2
    /\ StuckAt(call.at0) = 1
    /\ call.val.Label = "WARNING"

\* C12 as stated: ServiceState never returns CRITICAL and never returns
\* UNKNOWN.
C12_AsStated ==
    Returned("ServiceState") => call.val.Label \notin {"CRITICAL", "UNKNOWN"}

\* the collection of the example: two organizations, each with one enabled
\* plan due in the future, one enabled plan 10 minutes overdue and one
\* disabled plan
ExampleCollection ==
    [i \in 1..2 |-> [SyncPlans |-> <<PlanFuture, PlanOverdue, PlanDisabled>>]]

\* C13: the counters are predicate counts over the attached plans: NumOrgs
\* the number of organizations, NumPlans the number of plans,
\* NumPlansEnabled and NumPlansDisabled the number of enabled and of
\* disabled plans, NumPlansStuck and NumProblemPlans the number of plans
\* whose IsStuck holds (at least those stuck when the call is entered, at
\* most those stuck when it returns); the example collection gives 2, 6, 4,
\* 2, 2 and WARNING.
C13_Counters ==
    /\ Returned("NumOrgs") => call.val = Cardinality(DOMAIN evaluated)
    /\ Returned("NumPlans") => call.val = Cardinality(PlanPositions)
    /\ Returned("NumPlansEnabled") =>
            call.val = Cardinality({ pos \in PlanPositions : PlanAt(pos).Enabled })
    /\ Returned("NumPlansDisabled") =>
            call.val = Cardinality({ pos \in PlanPositions : ~PlanAt(pos).Enabled })
    /\ \A op \in {"NumPlansStuck", "NumProblemPlans"} :
            Returned(op) =>
                /\ StuckAt(call.at0) <= call.val
                /\ call.val <= StuckAt(call.at1)
    /\ (evaluated = ExampleCollection /\ call # NoCall /\ call.done
            /\ call.at1 = Base) =>
            call.val = CASE call.op = "NumOrgs" -> 2
                         [] call.op = "NumPlans" -> 6
                         [] call.op = "NumPlansEnabled" -> 4
                         [] call.op = "NumPlansDisabled" -> 2
                         [] call.op = "NumPlansStuck" -> 2
                         [] call.op = "NumProblemPlans" -> 2
                         [] call.op = "HasWarningState" -> TRUE
                         [] call.op = "IsOKState" -> FALSE
                         [] call.op = "ServiceState" ->
                                [Label |-> "WARNING", ExitCode |-> 1]

C13_Witness ==
    /\ evaluated = ExampleCollection
    /\ Returned("NumPlansDisabled")
    /\ call.val = 2

----------------------------------------------------------------------------
(* Properties of the aggregation (under Spec)                              *)

\* a sync-plan request was issued for the organization at index j
PlansRequested(j) ==
    \E n \in DOMAIN requests :
        requests[n].kind = "plans" /\ requests[n].org = orgs[j].ID

\* C14: GetOrgsWithSyncPlans returns an error exactly when the fetch it ran
\* last failed; it then returns a nil collection and an error wrapping the
\* cause; when the failed fetch is that of the sync plans of the organization
\* at index i the error names that organization and no sync-plan request was
\* issued for any organization after i; when it is the organizations fetch
\* no sync-plan request was issued at all.
C14_FailFast ==
    pc = "done" =>
        /\ (aggRet.err # NoError) <=> (fetchRet.err # NoError)
        /\ fetchRet.err # NoError =>
            /\ aggRet.returned /\ aggRet.isNil /\ aggRet.coll = <<>>
            /\ aggRet.cause = fetchRet.err
            /\ IF kind = "orgs"
               THEN /\ aggRet.err = "failed to retrieve organizations"
                    /\ \A n \in DOMAIN requests : requests[n].kind = "orgs"
               ELSE /\ aggRet.err =
                        "failed to retrieve sync plans for organization"
                    /\ aggRet.org = orgs[orgIdx].ID
                    /\ \A j \in DOMAIN orgs : j > orgIdx => ~PlansRequested(j)

\* the sync-plan fetch of the first of two organizations failed
C14_Witness ==
    /\ pc = "done"
    /\ kind = "plans"
    /\ Len(orgs) = 2
    /\ orgIdx = 1
    /\ fetchRet.err # NoError
    /\ aggRet.isNil
    /\ PlansRequested(1)

----------------------------------------------------------------------------
(* Properties of cancellation and of response bodies (under Spec)          *)

C16_BodyClosed ==
    /\ body = "open" => pc = "validate"
    /\ pc \in {"request", "returned", "done"} => body # "open"

\* the second sync-plans fetch is about to issue a request after pages were
\* received
C16_Witness ==
    /\ pc = "request"
    /\ kind = "plans"
    /\ orgIdx = 2
    /\ nextPage = 1
    /\ Len(requests) >= 3
    /\ body = "closed"

----------------------------------------------------------------------------
(* Properties of the timestamps (under SpecTime)                            *)

Unmarshalled == tsInput.op = "UnmarshalJSON" /\ tsOut # Unset
Marshalled == tsInput.op = "MarshalJSON" /\ tsOut # Unset

\* the string UnmarshalJSON was given, without its quotes
Given == tsInput.data.value

\* the string is written in one of the five layouts: dashes with UTC or a
\* numeric offset, or slashes with a numeric offset
InKnownLayout(value) ==
    /\ value.lit = "stamp"
    /\ \/ value.sep = "-" /\ value.zone.kind \in {"UTC", "-0700"}
       \/ value.sep = "/" /\ value.zone.kind = "-0700"

NullOrEmpty(value) == value.lit \in {"", "null"}

\* C17 as stated: for a string that is neither empty nor null and matches
\* none of the five layouts, UnmarshalJSON returns an error and leaves the
\* destination as it was.
C17_AsStated ==
    (Unmarshalled /\ ~NullOrEmpty(Given) /\ ~InKnownLayout(Given)) =>
        /\ tsOut.err # NoError
        /\ tsOut.dt = tsInput.dt

\* C18: unmarshalling the null keyword or the empty string, quoted or not,
\* returns no error and leaves the destination exactly as it was, for both
\* kinds.
C18_NullIsNoOp ==
    (Unmarshalled /\ NullOrEmpty(Given)) =>
        /\ tsOut.err = NoError
        /\ tsOut.dt = tsInput.dt

\* null was unmarshalled into a destination that held an instant
C18_Witness ==
    /\ Unmarshalled
    /\ Given.lit = "null"
    /\ ~tsInput.data.quoted
    /\ tsInput.dt.inst = Base
    /\ tsOut.dt.inst = Base

\* the instant a string in a known layout denotes is inst: a clock as far
\* ahead of UTC as the string says (not at all for UTC) shows the string's
\* date and time at inst
Denotes(value, inst) ==
    AddSeconds(inst, 60 * value.zone.minutes) = value.wall

\* C19: for both kinds, decoding what MarshalJSON produced for a time gives,
\* without error, a time at the same instant; and a string in any of the
\* five layouts is decoded, without error, to the instant it denotes, its
\* offset or UTC being the zone of the date and time it shows.
C19_RoundTrip ==
    /\ (Marshalled /\ tsBack # Unset) =>
            /\ tsBack.err = NoError
            /\ tsBack.dt.inst = tsInput.dt.inst
    /\ (Unmarshalled /\ InKnownLayout(Given)) =>
            /\ tsOut.err = NoError
            /\ Denotes(Given, tsOut.dt.inst)

\* a time five and a half hours ahead of UTC went through MarshalJSON and
\* UnmarshalJSON
C19_Witness ==
    /\ Marshalled
    /\ tsInput.dt = [inst |-> Base, off |-> 330]
    /\ tsOut.data.value.wall = AddSeconds(Base, 19800)
    /\ tsBack # Unset
    /\ tsBack.dt.inst = Base

\* C20 as stated: a StandardAPITime that holds the zero instant after
\* decoding null is encoded as the JSON null.
C20_AsStated ==
    (Unmarshalled /\ tsInput.kind = "StandardAPITime" /\ Given.lit = "null"
        /\ tsInput.dt = ZeroTime /\ tsBack # Unset) =>
        tsBack.data = Bare(JSONNullKeyword)

----------------------------------------------------------------------------
(* Properties of NullString (under SpecNullString)                          *)

\* C21 as stated: for every non-empty string, quotes and backslashes
\* included, decoding what MarshalJSON produced gives the string back; JSON
\* null decodes to the empty string and the empty string is encoded as
\* null.
C21_AsStated ==
    /\ (tsInput.op = "NullString.MarshalJSON" /\ tsBack # Unset
            /\ tsInput.ns # <<>>) => tsBack.ns = tsInput.ns
    /\ (tsInput.op = "NullString.MarshalJSON" /\ tsOut # Unset
            /\ tsInput.ns = <<>>) => tsOut.data = <<"n", "u", "l", "l">>
    /\ (tsInput.op = "NullString.UnmarshalJSON" /\ tsOut # Unset
            /\ tsInput.data = <<"n", "u", "l", "l">>) => tsOut.ns = <<>>

----------------------------------------------------------------------------
(* Properties of the verbose report (under SpecReport)                      *)

\* the report has a line for the sync plan at the position
Listed(pos) ==
    \E n \in DOMAIN call.val :
        call.val[n].org = pos[1] /\ call.val[n].plan = pos[2]

\* C22 as stated: the verbose report lists every sync plan that is stuck,
\* under its organization, whether or not omit-ok is set, and with omit-ok
\* set it lists no sync plan that is in an OK state.
C22_AsStated ==
    Returned("syncPlansVerboseReport") =>
        \A pos \in PlanPositions :
            /\ IsStuck(PlanAt(pos), call.at0) => Listed(pos)
            /\ (call.OmitOKSyncPlans /\ ~IsStuck(PlanAt(pos), call.at0)) =>
                    ~Listed(pos)

----------------------------------------------------------------------------
(* Properties of the requests (under Spec)                                  *)

\* the requests up to the n-th that belong to the fetch of the n-th
SameFetchUpTo(n) ==
    { m \in 1..n : /\ requests[m].kind = requests[n].kind
                   /\ requests[m].org = requests[n].org }

\* C23: the page parameter of the k-th request of a fetch is k, and every
\* request carries full_result=1 and the per_page value of the client
\* limits.
C23_PageSequence ==
    \A n \in DOMAIN requests :
        /\ requests[n].page = Cardinality(SameFetchUpTo(n))
        /\ requests[n].full_result = 1
        /\ requests[n].per_page = perPage

\* a sync-plans fetch has issued its third request
C23_Witness ==
    /\ Len(requests) >= 4
    /\ requests[Len(requests)].kind = "plans"
    /\ requests[Len(requests)].page = 3
    /\ Cardinality(SameFetchUpTo(Len(requests))) = 3

\* the index in orgs of the organization a sync-plans request is for
OrgIndexOf(n) == CHOOSE j \in DOMAIN orgs : orgs[j].ID = requests[n].org

\* C24: the requests are issued one after the other: every organizations
\* request precedes every sync-plans request, the sync-plans requests follow
\* the order of the organizations in the collection the server listed (all
\* those of the organization at index i before any for index i+1, none for
\* an organization not yet reached, none left out), and a request is only
\* issued when no response is pending, the body of the previous one being
\* closed.
C24_Sequential ==
    /\ [](\A m, n \in DOMAIN requests :
            m < n =>
                /\ requests[n].kind = "orgs" => requests[m].kind = "orgs"
                /\ (requests[m].kind = "plans" /\ requests[n].kind = "plans")
                        => OrgIndexOf(m) <= OrgIndexOf(n))
    /\ [](\A n \in DOMAIN requests :
            requests[n].kind = "plans" =>
                /\ \E j \in DOMAIN orgs : orgs[j].ID = requests[n].org
                /\ OrgIndexOf(n) <= orgIdx
                /\ \A j \in 1..OrgIndexOf(n) : PlansRequested(j))
    /\ [][requests' # requests =>
            /\ Len(requests') = Len(requests) + 1
            /\ pc = "request"
            /\ response = NoResponse
            /\ body # "open"]_vars

\* requests were issued for the sync plans of the second organization after
\* those of the first, the organizations having taken two pages
C24_Witness ==
    /\ Len(requests) >= 4
    /\ requests[2].kind = "orgs"
    /\ requests[3].kind = "plans" /\ requests[3].org = orgs[1].ID
    /\ requests[Len(requests)].org = orgs[2].ID
    /\ pc = "done"

\* the sync plans of the organization are those its own endpoint holds, in
\* the order it lists them, each annotated with the organization's values
AttachedFrom(o) ==
    /\ \A k \in DOMAIN o.SyncPlans :
        /\ o.SyncPlans[k].OrganizationID = o.ID
        /\ o.SyncPlans[k].OrganizationName = o.ID
        /\ o.SyncPlans[k].OrganizationLabel = <<"label", o.ID>>
        /\ o.SyncPlans[k].OrganizationTitle = <<"title", o.ID>>
    /\ server.plansMode = "exact" =>
        /\ Len(o.SyncPlans) = server.nPlans[o.ID]
        /\ \A k \in DOMAIN o.SyncPlans : o.SyncPlans[k].ID = k

\* C25: after a successful GetOrgsWithSyncPlans every organization of the
\* result holds exactly the sync plans fetched from its own endpoint (none
\* of another organization, none missing when the server reports its true
\* count), each carrying the organization's name, label and title; the
\* collection a sync-plans fetch returned is attached to the organization it
\* was fetched for and to no other; an organization's SyncPlans is empty
\* until then.
C25_Attachment ==
    /\ []((pc = "done" /\ aggRet.err = NoError) =>
            \A j \in DOMAIN aggRet.coll : AttachedFrom(aggRet.coll[j]))
    /\ [](\A j \in DOMAIN orgs :
            (j > orgIdx \/ (j = orgIdx /\ kind = "plans" /\ pc # "done"))
                => orgs[j].SyncPlans = <<>>)
    /\ [][(pc = "returned" /\ kind = "plans" /\ fetchRet.err = NoError) =>
            \/ orgs' = [orgs EXCEPT ![orgIdx].SyncPlans = fetchRet.coll]
            \/ (pc' = pc /\ orgs' = orgs)]_vars

\* two organizations with different numbers of sync plans were aggregated
C25_Witness ==
    /\ pc = "done"
    /\ aggRet.err = NoError
    /\ Len(aggRet.coll) = 2
    /\ Len(aggRet.coll[1].SyncPlans) = 2
    /\ Len(aggRet.coll[2].SyncPlans) = 1
    /\ aggRet.coll[2].SyncPlans[1].OrganizationName = aggRet.coll[2].ID

-----------------------------------------------------------------------------
(* Properties of SyncPlans.Stuck (under SpecStuck)                          *)

\* C26 as stated: evaluated at one instant, Stuck() returns exactly the sync
\* plans of the collection for which IsStuck() is true, the grace period
\* applied, in their original order, so that len(Stuck()) equals NumStuck().
C26_AsStated ==
    Returned("Stuck") =>
        /\ call.val = SelectSeq(evaluated[call.org].SyncPlans,
                                LAMBDA syncPlan : IsStuck(syncPlan, call.at0))
        /\ Len(call.val) = call.num

-----------------------------------------------------------------------------
(* Properties of the single-request GetOrganizations (under SpecSingle)     *)

\* C27 as stated: every rejection by validateResponse reaches the caller:
\* when the server answers with a status outside 200-299, GetOrganizations
\* returns a non-nil error; and it never returns a nil collection together
\* with a nil error.
C27_AsStated ==
    (respInput.op = "GetOrganizations" /\ respResult # Unset) =>
        /\ (/\ ~respInput.clientNil /\ ~respInput.prepareErr
            /\ ~respInput.doErr
            /\ (respInput.status < 200 \/ respInput.status > 299))
                => respResult.err # NoError
        /\ ~(respResult.isNil /\ respResult.err = NoError)

-----------------------------------------------------------------------------
(* Properties of the page rounds (under Spec)                               *)

\* C28 as stated: in every page round the response body is decoded only
\* while it is still open: whenever GetOrganizations or getOrgSyncPlans
\* decodes the body submitAPIQueryRequest handed over, that body has not
\* been closed yet.
C28_AsStated ==
    [][(pc = "decode" /\ pc' # "decode") => body = "open"]_vars

\* C29 as stated: in every reachable state of a paginated fetch the
\* remaining count computed for a page (the reported subtotal minus the
\* records accumulated) is at least zero, also when the server returns more
\* records than its subtotal or lowers the subtotal between pages.
C29_AsStated ==
    "remaining" \in DOMAIN round => round.remaining >= 0

-----------------------------------------------------------------------------
(* Properties of unscheduled sync plans (under SpecOrgs)                    *)

\* positions of the enabled sync plans whose next_sync is the zero instant
Unscheduled ==
    { pos \in PlanPositions :
        PlanAt(pos).Enabled /\ IsZero(PlanAt(pos).NextSync) }

\* C30: an enabled sync plan whose next_sync is the zero instant is stuck
\* according to IsStuck at every current time; NumPlansStuck and
\* NumProblemPlans count every such plan, HasWarningState is true and
\* ServiceState is WARNING for a collection that holds one.
C30_UnscheduledIsStuck ==
    /\ \A pos \in Unscheduled : IsStuck(PlanAt(pos), clock)
    /\ \A op \in {"NumPlansStuck", "NumProblemPlans"} :
        Returned(op) => call.val >= Cardinality(Unscheduled)
    /\ (Returned("HasWarningState") /\ Unscheduled # {}) => call.val = TRUE
    /\ (Returned("IsOKState") /\ Unscheduled # {}) => call.val = FALSE
    /\ (Returned("ServiceState") /\ Unscheduled # {}) =>
            call.val = [Label |-> "WARNING", ExitCode |-> 1]

\* ServiceState answered WARNING for a collection whose only plan past its
\* next_sync is an unscheduled one, after the clock had advanced
C30_Witness ==
    /\ Returned("ServiceState")
    /\ Unscheduled # {}
    /\ StuckAt(call.at0) = Cardinality(Unscheduled)
    /\ ticks > 0
    /\ call.val.Label = "WARNING"

====
